---- MODULE Spec2Model ----
\* A model of the Service Fabric REST client of src/servicefabric.go:
\* the URL builder, the transport adapter (getHTTP, getHTTPRaw, postHTTP),
\* the continuation-token loops of GetApplications, GetServices and
\* GetProperties, and GetClusterHealth, the delete operations and
\* GetServiceExtension.
\*
\* Conventions.
\*   - A Go pointer is a sequence: <<>> is nil, <<v>> points to v.
\*   - A URL or a base path is a sequence of string tokens; the separators
\*     "?" and "&" are tokens of their own, so that the query string of a URL
\*     can be read back from it.
\*   - A response body is a record: [kind |-> "empty"] is the zero-length
\*     body, [kind |-> "garbage"] a non-empty body that is no JSON document,
\*     [kind |-> "json", doc |-> d] a body that is the JSON document d.
\*   - An error is a string naming the place that made it; "nil" is no error.
EXTENDS Naturals, Sequences, FiniteSets, TLC

VARIABLES
    client,         \* the ServiceFabricClient the constructor returned
    op,             \* the operation called, with its arguments
    pc,             \* "idle", "loop" (inside a pagination loop) or "done"
    continueToken,  \* the local continueToken of a pagination loop
    aggregate,      \* the Items of aggregateAppItemsPages / ...ServiceItemsPages
    properties,     \* the local map of GetProperties
    target,         \* what the response argument of GetServiceExtension holds
    result,         \* what the operation returned
    requests,       \* the requests handed to the transport, in order
    responses,      \* what the transport made of them, in order
    fetched,        \* what getHTTP, getHTTPRaw and postHTTP returned, in order
    unmarshalled,   \* the bodies handed to json.Unmarshal, in order
    decoded         \* the <<i, j>> of the extensions handed to xml.Unmarshal

vars == <<client, op, pc, continueToken, aggregate, properties, target,
          result, requests, responses, fetched, unmarshalled, decoded>>

-----------------------------------------------------------------------------
\* Bounds of the model.

\* Fetches of one GetApplications or GetServices call.
MaxFetches == 3
\* Fetches of one GetProperties call (the existence probe not counted).
MaxPropFetches == 2
\* Items of one page.
MaxItems == 1
\* Properties of one page.
MaxProps == 1
\* Service types of one GetServiceTypes answer.
MaxTypes == 2
\* Extensions of one service type.
MaxExts == 1

SeqUpTo(S, n) == UNION {[1..k -> S] : k \in 0..n}

-----------------------------------------------------------------------------
\* Program constants.

DefaultAPIVersion == "3.0"
StatusOK == 200

-----------------------------------------------------------------------------
\* Inputs.

Endpoints == {"http://sf:19080"}
APIVersionArgs == {"", "6.4"}
\* TRUE: a transport was injected; FALSE: the httpClient pointer is nil.
HTTPClients == {TRUE, FALSE}
AppNames == {"app"}
PropertyNames == {"name"}
ServiceIds == {"svc"}
ApplicationIds == {"appid"}
Tokens == {"t1", "t2"}
\* *string continuation tokens: absent (JSON null or no field), empty, set.
TokenPtrs == {<<>>, <<"">>} \cup {<<t>> : t \in Tokens}
ItemIds == {"i1", "i2"}
Statuses == {StatusOK, 404, 500}

EmptyBody == [kind |-> "empty"]
GarbageBody == [kind |-> "garbage"]
JsonBody(d) == [kind |-> "json", doc |-> d]

\* What the transport's Run() leaves behind: an error, or a status and a text.
TransportError == [err |-> TRUE, status |-> 0, text |-> EmptyBody]
Answer(s, b) == [err |-> FALSE, status |-> s, text |-> b]

\* The outcomes of a request whose good answer is one of the documents docs:
\* a transport error, any status with an empty, a non-JSON or (one sample)
\* well-formed body, and status 200 with every document.
Outcomes(docs, sample) ==
    {TransportError}
      \cup {Answer(s, b) : s \in Statuses,
                           b \in {EmptyBody, GarbageBody, JsonBody(sample)}}
      \cup {Answer(StatusOK, JsonBody(d)) : d \in docs}

AppPageDocs ==
    [ContinuationToken : TokenPtrs, Items : SeqUpTo(ItemIds, MaxItems)]
SampleAppPage == [ContinuationToken |-> <<>>, Items |-> <<>>]

-----------------------------------------------------------------------------
\* URL builder.

noOp == [kind |-> "noOp"]

withParam(name, value) == [kind |-> "param", name |-> name, value |-> value]

\* withContinue with the test on the token's length left out.
withContinue_Always(token) == withParam("continue", token)

withContinue(token) ==
    IF token = "" THEN noOp ELSE withParam("continue", token)

\* Calling a queryParamsFunc on the parameters gathered so far.
ApplyParamsFunc(f, params) ==
    IF f.kind = "noOp" THEN params
    ELSE Append(params, f.name \o "=" \o f.value)

RECURSIVE ApplyAll(_, _)
ApplyAll(fs, params) ==
    IF fs = <<>> THEN params
    ELSE ApplyAll(Tail(fs), ApplyParamsFunc(Head(fs), params))

\* strings.Join(params, sep), the separator kept as a token.
RECURSIVE Join(_, _)
Join(params, sep) ==
    IF params = <<>> THEN <<>>
    ELSE IF Len(params) = 1 THEN params
    ELSE <<Head(params), sep>> \o Join(Tail(params), sep)

\* getURL with api-version added after the injected parameters.
getURL_VersionLast(c, basePath, paramsFuncs) ==
    LET params == Append(ApplyAll(paramsFuncs, <<>>),
                         "api-version=" \o c.apiVersion)
    IN  <<c.endpoint, "/">> \o basePath \o <<"?">> \o Join(params, "&")

getURL(c, basePath, paramsFuncs) ==
    LET params == ApplyAll(paramsFuncs, <<"api-version=" \o c.apiVersion>>)
    IN  <<c.endpoint, "/">> \o basePath \o <<"?">> \o Join(params, "&")

-----------------------------------------------------------------------------
\* Transport adapter.  Each function is given the outcome o of the transport
\* call it would make and returns what the Go function returns, with the URL
\* it requested (<<>> when it returns before building one).

Request(method, url) == [method |-> method, url |-> url]

\* getHTTP with the test on the status left out.
getHTTP_IgnoresStatus(c, basePath, paramsFuncs, o) ==
    LET url == Request("GET", getURL(c, basePath, paramsFuncs)) IN
    IF ~c.httpClient
      THEN [err |-> "client", body |-> <<>>, sent |-> <<>>]
    ELSE IF o.err
      THEN [err |-> "connect", body |-> <<>>, sent |-> <<url>>]
    ELSE IF o.text.kind = "empty"
      THEN [err |-> "empty", body |-> <<>>, sent |-> <<url>>]
    ELSE [err |-> "nil", body |-> <<o.text>>, sent |-> <<url>>]

\* getHTTP with the test on the body's length left out.
getHTTP_NoEmptyCheck(c, basePath, paramsFuncs, o) ==
    LET url == Request("GET", getURL(c, basePath, paramsFuncs)) IN
    IF ~c.httpClient
      THEN [err |-> "client", body |-> <<>>, sent |-> <<>>]
    ELSE IF o.err
      THEN [err |-> "connect", body |-> <<>>, sent |-> <<url>>]
    ELSE IF o.status # StatusOK
      THEN [err |-> "status", body |-> <<>>, sent |-> <<url>>]
    ELSE [err |-> "nil", body |-> <<o.text>>, sent |-> <<url>>]

getHTTP(c, basePath, paramsFuncs, o) ==
    LET url == Request("GET", getURL(c, basePath, paramsFuncs)) IN
    IF ~c.httpClient
      THEN [err |-> "client", body |-> <<>>, sent |-> <<>>]
    ELSE IF o.err
      THEN [err |-> "connect", body |-> <<>>, sent |-> <<url>>]
    ELSE IF o.status # StatusOK
      THEN [err |-> "status", body |-> <<>>, sent |-> <<url>>]
    ELSE IF o.text.kind = "empty"
      THEN [err |-> "empty", body |-> <<>>, sent |-> <<url>>]
    ELSE [err |-> "nil", body |-> <<o.text>>, sent |-> <<url>>]

\* getHTTPRaw with getHTTP's test on the status (what the comment in
\* nameExists takes it to do).
getHTTPRaw_ChecksStatus(c, basePath, o) ==
    LET url == Request("GET", getURL(c, basePath, <<>>)) IN
    IF ~c.httpClient
      THEN [err |-> "client", status |-> 0, sent |-> <<>>]
    ELSE IF o.err
      THEN [err |-> "connect", status |-> 0, sent |-> <<url>>]
    ELSE IF o.status # StatusOK
      THEN [err |-> "status", status |-> 0, sent |-> <<url>>]
    ELSE [err |-> "nil", status |-> o.status, sent |-> <<url>>]

getHTTPRaw(c, basePath, o) ==
    LET url == Request("GET", getURL(c, basePath, <<>>)) IN
    IF ~c.httpClient
      THEN [err |-> "client", status |-> 0, sent |-> <<>>]
    ELSE IF o.err
      THEN [err |-> "connect", status |-> 0, sent |-> <<url>>]
    ELSE [err |-> "nil", status |-> o.status, sent |-> <<url>>]

\* postHTTP as the source has it does not build (its second parameter is
\* never passed, status is not declared, body is declared twice); it is
\* modelled as getHTTP with the method POST, which is what its checks spell.
postHTTP(c, basePath, paramsFuncs, o) ==
    LET url == Request("POST", getURL(c, basePath, paramsFuncs)) IN
    IF ~c.httpClient
      THEN [err |-> "client", body |-> <<>>, sent |-> <<>>]
    ELSE IF o.err
      THEN [err |-> "connect", body |-> <<>>, sent |-> <<url>>]
    ELSE IF o.status # StatusOK
      THEN [err |-> "status", body |-> <<>>, sent |-> <<url>>]
    ELSE IF o.text.kind = "empty"
      THEN [err |-> "empty", body |-> <<>>, sent |-> <<url>>]
    ELSE [err |-> "nil", body |-> <<o.text>>, sent |-> <<url>>]

\* json.Unmarshal of a body that getHTTP returned.
jsonUnmarshal(body) ==
    IF body.kind = "json" THEN [err |-> "nil", doc |-> body.doc]
    ELSE [err |-> "json", doc |-> <<>>]

getString(str) == IF str = <<>> THEN "" ELSE str[1]

\* The bookkeeping of one call of getHTTP, getHTTPRaw or postHTTP that
\* returned r on the transport outcome o; json tells whether the caller
\* hands a body it gets to json.Unmarshal.
Sent(r, o, json) ==
    /\ requests' = requests \o r.sent
    /\ responses' = IF r.sent = <<>> THEN responses ELSE Append(responses, o)
    /\ fetched' = Append(fetched, r)
    /\ unmarshalled' = IF json /\ r.err = "nil"
                         THEN Append(unmarshalled, r.body[1])
                         ELSE unmarshalled

-----------------------------------------------------------------------------
\* The client and its operations.

NewServiceFabricClient(httpClient, endpoint, apiVersion) ==
    [endpoint |-> endpoint,
     apiVersion |-> IF apiVersion = "" THEN DefaultAPIVersion ELSE apiVersion,
     httpClient |-> httpClient]

NoCall == [name |-> "none"]
NilResult == [err |-> "nil"]

Init ==
    /\ client \in {NewServiceFabricClient(h, e, v) :
                     h \in HTTPClients, e \in Endpoints, v \in APIVersionArgs}
    /\ op = NoCall
    /\ pc = "idle"
    /\ continueToken = ""
    /\ aggregate = <<>>
    /\ properties = <<>>
    /\ requests = <<>>
    /\ responses = <<>>
    /\ fetched = <<>>
    /\ unmarshalled = <<>>
    /\ result = NilResult
    /\ target = "zero"
    /\ decoded = <<>>

\* A behaviour is one call on a client: the client keeps nothing from one
\* call to the next (its fields are set once, by the constructor).
CanCall == pc = "idle"

\* A call of the operation o.  Its locals are fresh: they have the values
\* Init gives them (the zero values of var declarations, the empty map of
\* make, the caller's target as it was passed).
Begin(o) ==
    /\ CanCall
    /\ op' = o
    /\ UNCHANGED client

Return(r) ==
    /\ pc' = "done"
    /\ result' = r

\* The page's items assigned, not appended.
appendItems_Replace(items, more) == more

\* append(aggregate.Items, page.Items...)
appendItems(items, more) == items \o more

\* The test inverted.
LoopBreaks_Inverted(token) == token # ""

\* The test that leaves a pagination loop.
LoopBreaks(token) == token = ""

\* One pass of the loop of GetApplications or GetServices over basePath.
ItemsLoop(basePath, o) ==
    LET res == getHTTP(client, basePath, <<withContinue(continueToken)>>, o)
        page == jsonUnmarshal(res.body[1])
    IN  /\ Sent(res, o, TRUE)
        /\ IF res.err # "nil"
             THEN /\ Return([err |-> res.err, page |-> <<>>])
                  /\ UNCHANGED <<aggregate, continueToken>>
           ELSE IF page.err # "nil"
             THEN /\ Return([err |-> page.err, page |-> <<>>])
                  /\ UNCHANGED <<aggregate, continueToken>>
           ELSE /\ aggregate' = appendItems(aggregate, page.doc.Items)
                /\ continueToken' = getString(page.doc.ContinuationToken)
                /\ IF LoopBreaks(continueToken')
                     THEN Return([err |-> "nil",
                                  page |-> <<[ContinuationToken |-> <<>>,
                                              Items |-> aggregate']>>])
                     ELSE UNCHANGED <<pc, result>>

GetApplicationsCall ==
    /\ Begin([name |-> "GetApplications"])
    /\ pc' = "loop"
    /\ UNCHANGED <<continueToken, aggregate, properties, target, result,
                   requests, responses, fetched, unmarshalled, decoded>>

GetApplicationsLoop ==
    /\ pc = "loop"
    /\ op.name = "GetApplications"
    /\ Len(responses) < MaxFetches
    /\ \E o \in Outcomes(AppPageDocs, SampleAppPage) :
         ItemsLoop(<<"Applications/">>, o)
    /\ UNCHANGED <<client, op, properties, target, decoded>>

GetServicesCall ==
    /\ \E appName \in AppNames :
         Begin([name |-> "GetServices", appName |-> appName])
    /\ pc' = "loop"
    /\ UNCHANGED <<continueToken, aggregate, properties, target, result,
                   requests, responses, fetched, unmarshalled, decoded>>

GetServicesLoop ==
    /\ pc = "loop"
    /\ op.name = "GetServices"
    /\ Len(responses) < MaxFetches
    /\ \E o \in Outcomes(AppPageDocs, SampleAppPage) :
         ItemsLoop(<<"Applications/", op.appName, "/$/GetServices">>, o)
    /\ UNCHANGED <<client, op, properties, target, decoded>>

-----------------------------------------------------------------------------
\* GetClusterHealth and the delete operations.

ProbeOutcomes ==
    {TransportError}
      \cup {Answer(s, b) : s \in Statuses, b \in {EmptyBody, GarbageBody}}

\* The literal "/$/GetClusterHealth?api-version=6.0&".
ClusterHealthPath == <<"/$/GetClusterHealth", "?", "api-version=6.0", "&">>

GetClusterHealth ==
    /\ Begin([name |-> "GetClusterHealth"])
    /\ \E o \in ProbeOutcomes :
         LET res == getHTTPRaw(client, ClusterHealthPath, o) IN
         /\ Sent(res, o, FALSE)
         /\ IF res.err # "nil"
              THEN Return([err |-> "health", ok |-> FALSE])
              ELSE Return([err |-> "nil", ok |-> (res.status = StatusOK)])
    /\ UNCHANGED <<continueToken, aggregate, properties, target, decoded>>

\* What a delete answers with: no document is expected, any text may come.
DeleteOutcomes ==
    {TransportError}
      \cup {Answer(s, b) : s \in Statuses, b \in {EmptyBody, GarbageBody}}

\* The body of DeleteService and DeleteApplication.  The source compares the
\* bytes postHTTP returns with http.StatusOK; postHTTP returns without an
\* error only on status 200, which is the comparison's evident meaning.
Delete(basePath, o) ==
    LET res == postHTTP(client, basePath,
                        <<withParam("api-version", client.apiVersion)>>, o)
    IN  /\ Sent(res, o, FALSE)
        /\ IF res.err # "nil"
             THEN Return([err |-> "delete", ok |-> FALSE])
             ELSE Return([err |-> "nil", ok |-> (o.status = StatusOK)])
        /\ UNCHANGED <<continueToken, aggregate, properties, target, decoded>>

DeleteService ==
    \E serviceId \in ServiceIds :
      /\ Begin([name |-> "DeleteService", id |-> serviceId])
      /\ \E o \in DeleteOutcomes :
           Delete(<<"/Services/", serviceId, "/$/Delete">>, o)

DeleteApplication ==
    \E applicationId \in ApplicationIds :
      /\ Begin([name |-> "DeleteApplication", id |-> applicationId])
      /\ \E o \in DeleteOutcomes :
           Delete(<<"/Applications/", applicationId, "/$/Delete">>, o)

-----------------------------------------------------------------------------
\* GetProperties.

Property(name, kind, data) ==
    [Name |-> name, Value |-> [Kind |-> kind, Data |-> data]]

Props ==
    {Property("a", "String", "x"), Property("a", "String", "y"),
     Property("b", "String", "x"), Property("b", "Int64", "5")}

\* PropertiesListPage.ContinuationToken is a string: a JSON null leaves "".
PropPageDocs ==
    [ContinuationToken : {""} \cup Tokens,
     Properties : SeqUpTo(Props, MaxProps)]
SamplePropPage == [ContinuationToken |-> "", Properties |-> <<>>]

\* properties[name] = data on a Go map.
MapPut(m, k, v) == [n \in DOMAIN m \cup {k} |-> IF n = k THEN v ELSE m[n]]

\* The range loop without its test on Value.Kind.
RECURSIVE AddProperties_AnyKind(_, _)
AddProperties_AnyKind(m, ps) ==
    IF ps = <<>> THEN m
    ELSE AddProperties_AnyKind(
           MapPut(m, Head(ps).Name, Head(ps).Value.Data), Tail(ps))

\* The range loop of GetProperties over one page's properties.
RECURSIVE AddProperties(_, _)
AddProperties(m, ps) ==
    IF ps = <<>> THEN m
    ELSE LET property == Head(ps) IN
         IF property.Value.Kind # "String"
           THEN AddProperties(m, Tail(ps))
           ELSE AddProperties(MapPut(m, property.Name, property.Value.Data),
                              Tail(ps))

\* nameExists taking every answer of the transport for a yes.
nameExists_Always(c, propertyName, o) ==
    LET res == getHTTPRaw(c, <<"Names/", propertyName>>, o) IN
    IF res.err # "nil"
      THEN [err |-> res.err, exists |-> FALSE, raw |-> res]
      ELSE [err |-> "nil", exists |-> TRUE, raw |-> res]

nameExists(c, propertyName, o) ==
    LET res == getHTTPRaw(c, <<"Names/", propertyName>>, o) IN
    IF res.err # "nil"
      THEN [err |-> res.err, exists |-> FALSE, raw |-> res]
      ELSE [err |-> "nil", exists |-> (res.status = StatusOK), raw |-> res]

\* GetProperties up to its loop: the existence probe.
GetPropertiesCall ==
    \E name \in PropertyNames :
      /\ Begin([name |-> "GetProperties", arg |-> name])
      /\ \E o \in ProbeOutcomes :
           LET ne == nameExists(client, name, o) IN
           /\ Sent(ne.raw, o, FALSE)
           /\ IF ne.err # "nil"
                THEN Return([err |-> ne.err, exists |-> FALSE, props |-> <<>>])
              ELSE IF ~ne.exists
                THEN Return([err |-> "nil", exists |-> FALSE, props |-> <<>>])
              ELSE /\ pc' = "loop"
                   /\ UNCHANGED result
      /\ UNCHANGED <<continueToken, aggregate, properties, target, decoded>>

\* One pass of the loop of GetProperties.
GetPropertiesLoop ==
    /\ pc = "loop"
    /\ op.name = "GetProperties"
    /\ Len(responses) < 1 + MaxPropFetches
    /\ \E o \in Outcomes(PropPageDocs, SamplePropPage) :
         LET res == getHTTP(client,
                            <<"Names/", op.arg, "/$/GetProperties">>,
                            <<withContinue(continueToken),
                              withParam("IncludeValues", "true")>>, o)
             page == jsonUnmarshal(res.body[1])
         IN  /\ Sent(res, o, TRUE)
             /\ IF res.err # "nil"
                  THEN /\ Return([err |-> res.err, exists |-> FALSE,
                                  props |-> <<>>])
                       /\ UNCHANGED <<properties, continueToken>>
                ELSE IF page.err # "nil"
                  THEN /\ Return([err |-> page.err, exists |-> FALSE,
                                  props |-> <<>>])
                       /\ UNCHANGED <<properties, continueToken>>
                ELSE /\ properties' =
                          AddProperties(properties, page.doc.Properties)
                     /\ continueToken' = page.doc.ContinuationToken
                     /\ IF LoopBreaks(continueToken')
                          THEN Return([err |-> "nil", exists |-> TRUE,
                                       props |-> <<properties'>>])
                          ELSE UNCHANGED <<pc, result>>
    /\ UNCHANGED <<client, op, aggregate, target, decoded>>

-----------------------------------------------------------------------------
\* GetServiceExtension.

AppTypes == {"AppType"}
AppTypeVersions == {"1.0"}
ServiceTypeNames == {"T1", "t1"}
ServiceTypeNameArgs == {"T1"}
ExtensionKeyArgs == {"labels"}

KeyValuePair(key, value) == [Key |-> key, Value |-> value]

\* Extension values: two well-formed XML texts and one that is no XML.
Exts ==
    {KeyValuePair("Labels", "xmlA"), KeyValuePair("LABELS", "bad"),
     KeyValuePair("Other", "xmlB")}

ServiceTypes ==
    {[ServiceTypeDescription |-> [ServiceTypeName |-> n, Extensions |-> e]] :
       n \in ServiceTypeNames, e \in SeqUpTo(Exts, MaxExts)}

ServiceTypeDocs == SeqUpTo(ServiceTypes, MaxTypes)

\* strings.ToLower on the keys of the model; EqualFold compares under it.
ToLower(s) ==
    CASE s = "Labels" -> "labels"
      [] s = "LABELS" -> "labels"
      [] s = "Other" -> "other"
      [] OTHER -> s

EqualFold(s, t) == ToLower(s) = ToLower(t)

\* xml.Unmarshal of an extension's value into the target.
xmlUnmarshal(value, into) ==
    CASE value = "xmlA" -> [err |-> "nil", target |-> "A"]
      [] value = "xmlB" -> [err |-> "nil", target |-> "B"]
      [] OTHER -> [err |-> "xml", target |-> into]

\* The inner range loop: the index of the first extension from j on whose
\* key equals extensionKey under case folding, 0 if there is none.
RECURSIVE ScanExtensions(_, _, _)
ScanExtensions(extensions, extensionKey, j) ==
    IF j > Len(extensions) THEN 0
    ELSE IF EqualFold(extensions[j].Key, extensionKey) THEN j
    ELSE ScanExtensions(extensions, extensionKey, j + 1)

\* The outer loop giving up at the first service type of the name, whether
\* or not it has the extension.
RECURSIVE ScanServiceTypes_FirstNamed(_, _, _, _)
ScanServiceTypes_FirstNamed(serviceTypes, serviceTypeName, extensionKey, i) ==
    IF i > Len(serviceTypes) THEN <<>>
    ELSE LET d == serviceTypes[i].ServiceTypeDescription
             j == ScanExtensions(d.Extensions, extensionKey, 1)
         IN  IF d.ServiceTypeName = serviceTypeName
               THEN IF j # 0 THEN <<i, j>> ELSE <<>>
               ELSE ScanServiceTypes_FirstNamed(serviceTypes, serviceTypeName,
                                                extensionKey, i + 1)

\* The outer range loop: <<i, j>> of the extension the loops stop at,
\* <<>> if they run to the end.
RECURSIVE ScanServiceTypes(_, _, _, _)
ScanServiceTypes(serviceTypes, serviceTypeName, extensionKey, i) ==
    IF i > Len(serviceTypes) THEN <<>>
    ELSE LET d == serviceTypes[i].ServiceTypeDescription
             j == ScanExtensions(d.Extensions, extensionKey, 1)
         IN  IF d.ServiceTypeName = serviceTypeName /\ j # 0
               THEN <<i, j>>
               ELSE ScanServiceTypes(serviceTypes, serviceTypeName,
                                     extensionKey, i + 1)

GetServiceExtension ==
    \E appType \in AppTypes, applicationVersion \in AppTypeVersions,
       serviceTypeName \in ServiceTypeNameArgs,
       extensionKey \in ExtensionKeyArgs :
      /\ Begin([name |-> "GetServiceExtension",
                serviceTypeName |-> serviceTypeName,
                extensionKey |-> extensionKey])
      /\ \E o \in Outcomes(ServiceTypeDocs, <<>>) :
           LET res == getHTTP(client,
                              <<"ApplicationTypes/", appType,
                                "/$/GetServiceTypes">>,
                              <<withParam("ApplicationTypeVersion",
                                          applicationVersion)>>, o)
               types == jsonUnmarshal(res.body[1])
               hit == ScanServiceTypes(types.doc, serviceTypeName,
                                       extensionKey, 1)
               ext == types.doc[hit[1]].ServiceTypeDescription
                        .Extensions[hit[2]]
               xml == xmlUnmarshal(ext.Value, target)
           IN  /\ Sent(res, o, TRUE)
               /\ IF res.err # "nil"
                    THEN /\ Return([err |-> "request: " \o res.err])
                         /\ UNCHANGED <<target, decoded>>
                  ELSE IF types.err # "nil"
                    THEN /\ Return([err |-> types.err])
                         /\ UNCHANGED <<target, decoded>>
                  ELSE IF hit = <<>>
                    THEN /\ Return([err |-> "nil"])
                         /\ UNCHANGED <<target, decoded>>
                  ELSE /\ decoded' = Append(decoded, hit)
                       /\ target' = xml.target
                       /\ Return([err |-> xml.err])
      /\ UNCHANGED <<continueToken, aggregate, properties>>

Next ==
    \/ GetApplicationsCall
    \/ GetApplicationsLoop
    \/ GetServicesCall
    \/ GetServicesLoop
    \/ GetClusterHealth
    \/ DeleteService
    \/ DeleteApplication
    \/ GetPropertiesCall
    \/ GetPropertiesLoop
    \/ GetServiceExtension

Spec == Init /\ [][Next]_vars

-----------------------------------------------------------------------------
\* Vocabulary of the properties.  It is stated over what went over the wire
\* (requests, responses) and what came back (result), not over the operators
\* of the model.

IsItemsOp == op.name \in {"GetApplications", "GetServices"}
IsPagedOp == IsItemsOp \/ op.name = "GetProperties"

\* GetProperties sends its existence probe before the first page fetch.
FirstFetch == IF op.name = "GetProperties" THEN 2 ELSE 1

\* A transport outcome that is a page: no error, status 200, a JSON document.
OkPage(o) == ~o.err /\ o.status = 200 /\ o.text.kind = "json"

\* The continuation token of a page, "" when it is absent.
TokenOf(o) ==
    LET t == o.text.doc.ContinuationToken IN
    IF op.name = "GetProperties" THEN t
    ELSE IF t = <<>> THEN "" ELSE t[1]

\* The items of the pages k..Len(rs) of rs, in order.
RECURSIVE ItemsFrom(_, _)
ItemsFrom(rs, k) ==
    IF k > Len(rs) THEN <<>>
    ELSE rs[k].text.doc.Items \o ItemsFrom(rs, k + 1)

\* The properties of the pages k..Len(rs) of rs, in order.
RECURSIVE PropertiesFrom(_, _)
PropertiesFrom(rs, k) ==
    IF k > Len(rs) THEN <<>>
    ELSE rs[k].text.doc.Properties \o PropertiesFrom(rs, k + 1)

\* The query parameters of a URL: what follows its first "?", split at "&".
FirstQuestionMark(url) ==
    CHOOSE i \in 1..Len(url) :
      url[i] = "?" /\ \A j \in 1..(i - 1) : url[j] # "?"
PathOf(url) == SubSeq(url, 3, FirstQuestionMark(url) - 1)
QueryOf(url) ==
    SelectSeq(SubSeq(url, FirstQuestionMark(url) + 1, Len(url)),
              LAMBDA t : t # "&")
ContinueParams(url) ==
    SelectSeq(QueryOf(url),
              LAMBDA t : t \in {"continue=" \o x : x \in Tokens \cup {""}})

-----------------------------------------------------------------------------
\* C1: when the pages GetApplications or GetServices is served are N >= 1
\* well-formed pages of which the first N-1 carry a non-empty continuation
\* token and the N-th an empty or absent one, the call has returned without
\* error after exactly N fetches, and its Items are the pages' items
\* concatenated in fetch order.
C1_ItemsConcatenated ==
    LET N == Len(responses) IN
    (/\ IsItemsOp
     /\ N >= 1
     /\ \A k \in 1..N : OkPage(responses[k])
     /\ \A k \in 1..(N - 1) : TokenOf(responses[k]) # ""
     /\ TokenOf(responses[N]) = "")
    => /\ pc = "done"
       /\ result.err = "nil"
       /\ Len(requests) = N
       /\ result.page # <<>>
       /\ result.page[1].Items = ItemsFrom(responses, 1)

\* Three pages; the result keeps the order of arrival and the duplicate.
C1_Witness ==
    /\ op.name = "GetApplications"
    /\ pc = "done"
    /\ Len(requests) = 3
    /\ result.err = "nil"
    /\ result.page[1].Items = <<"i2", "i1", "i1">>

\* C2: in GetApplications, GetServices and GetProperties, when the transport
\* fails a page fetch, or answers it with a status other than 200, an empty
\* body or a body that is no JSON, that fetch is the last request of the
\* call, and the call has returned an error and a nil result ((false, nil,
\* err) for GetProperties), whatever the pages before it held.
C2_FailedFetchEndsCall ==
    IsPagedOp =>
      \A k \in FirstFetch..Len(responses) :
        ~OkPage(responses[k]) =>
          /\ k = Len(responses)
          /\ Len(requests) = k
          /\ pc = "done"
          /\ result.err # "nil"
          /\ IF IsItemsOp THEN result.page = <<>>
             ELSE ~result.exists /\ result.props = <<>>

\* The third fetch is answered with status 500 after two pages with items.
C2_Witness ==
    /\ op.name = "GetServices"
    /\ Len(responses) = 3
    /\ responses[3].status = 500
    /\ aggregate # <<>>
    /\ pc = "done"
    /\ result.err = "status"
    /\ result.page = <<>>

C4_StringPropertiesOnly ==
    (op.name = "GetProperties" /\ pc = "done"
       /\ result.err = "nil" /\ result.exists) =>
      LET all == PropertiesFrom(responses, 2)
          strings == {i \in 1..Len(all) : all[i].Value.Kind = "String"}
          m == result.props[1]
      IN  /\ result.props # <<>>
          /\ DOMAIN m = {all[i].Name : i \in strings}
          /\ \A n \in DOMAIN m :
               \E i \in strings :
                 /\ all[i].Name = n
                 /\ m[n] = all[i].Value.Data
                 /\ \A j \in strings : all[j].Name = n => j <= i

\* The properties {a, String, x} and {b, Int64, 5} give {a: x}.
C4_Witness ==
    /\ op.name = "GetProperties"
    /\ pc = "done"
    /\ result.err = "nil"
    /\ result.exists
    /\ PropertiesFrom(responses, 2) =
         <<[Name |-> "a", Value |-> [Kind |-> "String", Data |-> "x"]],
           [Name |-> "b", Value |-> [Kind |-> "Int64", Data |-> "5"]]>>
    /\ result.props = <<[n \in {"a"} |-> "x"]>>

\* The calls of getHTTP among the calls made: all of them but the probe.
GetHTTPCalls ==
    IF op.name \in {"GetApplications", "GetServices", "GetServiceExtension"}
      THEN 1..Len(fetched)
    ELSE IF op.name = "GetProperties" THEN 2..Len(fetched)
    ELSE {}

\* C5: getHTTP turns a transport error into a connectivity error, else a
\* status other than 200 into an upstream-status error, else a zero-length
\* body into an empty-response error, and else returns the body as it came;
\* no caller hands a zero-length body to json.Unmarshal.
C5_FetchClassified ==
    /\ client.httpClient =>
         \A k \in GetHTTPCalls :
           LET o == responses[k]
               r == fetched[k]
           IN  r.err = (IF o.err THEN "connect"
                        ELSE IF o.status # 200 THEN "status"
                        ELSE IF o.text = [kind |-> "empty"] THEN "empty"
                        ELSE "nil")
               /\ (r.err = "nil" => r.body = <<o.text>>)
               /\ (r.err # "nil" => r.body = <<>>)
    /\ \A j \in 1..Len(unmarshalled) : unmarshalled[j] # [kind |-> "empty"]

\* A second page comes with status 200 and no body: an empty-response
\* error, and only the first page was handed to the decoder.
C5_Witness ==
    /\ op.name = "GetApplications"
    /\ Len(responses) = 2
    /\ responses[2] = [err |-> FALSE, status |-> 200,
                       text |-> [kind |-> "empty"]]
    /\ fetched[2].err = "empty"
    /\ result.err = "empty"
    /\ Len(unmarshalled) = 1

\* The spellings that differ in case only.
Spellings == {{"labels", "Labels", "LABELS"}, {"other", "Other"}}
SameIgnoringCase(s, t) == s = t \/ \E S \in Spellings : s \in S /\ t \in S

\* The <<i, j>> of the extensions that match the arguments of the call.
Matches(types) ==
    {<<i, j>> \in (1..Len(types)) \X (1..(MaxExts + 1)) :
       /\ types[i].ServiceTypeDescription.ServiceTypeName = op.serviceTypeName
       /\ j <= Len(types[i].ServiceTypeDescription.Extensions)
       /\ SameIgnoringCase(types[i].ServiceTypeDescription.Extensions[j].Key,
                           op.extensionKey)}

Before(m, n) == m[1] < n[1] \/ (m[1] = n[1] /\ m[2] <= n[2])

HealthFollowsStatus ==
    /\ result = [err |-> "nil", ok |-> TRUE]
         <=> (responses # <<>> /\ ~responses[1].err
                /\ responses[1].status = 200)
    /\ (responses # <<>> /\ ~responses[1].err /\ responses[1].status # 200)
         => result = [err |-> "nil", ok |-> FALSE]

\* C7 as claimed: GetClusterHealth returns (true, nil) exactly when the
\* transport answers with status 200, (false, nil) on any other status, and
\* an error only when the transport call fails.
C7_Original ==
    op.name = "GetClusterHealth" /\ pc = "done" =>
      /\ HealthFollowsStatus
      /\ result.err # "nil" => (responses # <<>> /\ responses[1].err)

\* C7 amended: ... and an error exactly when the transport call fails or
\* the client was built without an HTTP client.
C7_HealthIffStatusOK ==
    op.name = "GetClusterHealth" /\ pc = "done" =>
      /\ HealthFollowsStatus
      /\ result.err # "nil"
           <=> (~client.httpClient \/ (responses # <<>> /\ responses[1].err))

\* Status 200 with an empty body: healthy.
C7_Witness ==
    /\ op.name = "GetClusterHealth"
    /\ pc = "done"
    /\ responses = <<[err |-> FALSE, status |-> 200,
                      text |-> [kind |-> "empty"]]>>
    /\ result = [err |-> "nil", ok |-> TRUE]

\* The base path the k-th request of the call is made to.
ExpectedPath(k) ==
    CASE op.name = "GetApplications" -> <<"Applications/">>
      [] op.name = "GetServices" ->
           <<"Applications/", op.appName, "/$/GetServices">>
      [] op.name = "GetProperties" ->
           IF k = 1 THEN <<"Names/", op.arg>>
           ELSE <<"Names/", op.arg, "/$/GetProperties">>
      [] op.name = "GetServiceExtension" ->
           <<"ApplicationTypes/", "AppType", "/$/GetServiceTypes">>
      [] op.name = "DeleteService" -> <<"/Services/", op.id, "/$/Delete">>
      [] op.name = "DeleteApplication" ->
           <<"/Applications/", op.id, "/$/Delete">>
      [] op.name = "GetClusterHealth" -> <<"/$/GetClusterHealth">>

\* The parameters the k-th request of the call may carry after api-version:
\* one per injector that is not a no-op, in the order of the call.
ExpectedParams(k) ==
    LET continue == {<<>>} \cup {<<"continue=" \o t>> : t \in Tokens} IN
    CASE IsItemsOp -> continue
      [] op.name = "GetProperties" ->
           IF k = 1 THEN {<<>>}
           ELSE {c \o <<"IncludeValues=true">> : c \in continue}
      [] op.name = "GetServiceExtension" ->
           {<<"ApplicationTypeVersion=1.0">>}
      [] op.name \in {"DeleteService", "DeleteApplication"} ->
           {<<"api-version=" \o client.apiVersion>>}
      [] op.name = "GetClusterHealth" -> {<<>>}

\* {endpoint}/{basePath}?api-version={configured version}&{param}&...
WellFormedURL(k) ==
    LET url == requests[k].url IN
    /\ url[1] = client.endpoint
    /\ url[2] = "/"
    /\ PathOf(url) = ExpectedPath(k)
    /\ QueryOf(url) # <<>>
    /\ Head(QueryOf(url)) = "api-version=" \o client.apiVersion
    /\ Tail(QueryOf(url)) \in ExpectedParams(k)

\* C8 as claimed: every request of every operation, the health probe
\* included, goes to {endpoint}/{basePath}?api-version={configured
\* version} followed by one parameter per injector that is not a no-op.
C8_Original == \A k \in 1..Len(requests) : WellFormedURL(k)

\* C8 amended: every request but the health probe's has that form; the
\* health probe goes to {endpoint}//$/GetClusterHealth?api-version=6.0&?
\* api-version={configured version}: its first query parameter is
\* api-version=6.0, and the configured version comes after it.
C8_ApiVersionFirst ==
    \A k \in 1..Len(requests) :
      IF op.name = "GetClusterHealth"
        THEN requests[k].url =
               <<client.endpoint, "/", "/$/GetClusterHealth", "?",
                 "api-version=6.0", "&", "?",
                 "api-version=" \o client.apiVersion>>
        ELSE WellFormedURL(k)

\* The second page fetch of GetProperties on a client built with no version:
\* api-version=3.0, the continuation token, IncludeValues.
C8_Witness ==
    /\ op.name = "GetProperties"
    /\ Len(requests) = 3
    /\ QueryOf(requests[3].url) =
         <<"api-version=3.0", "continue=t1", "IncludeValues=true">>

\* C9: in GetApplications, GetServices and GetProperties the first page
\* fetch carries no continue parameter, not even an empty one, and each later
\* fetch carries exactly one, whose value is the continuation token of the
\* page fetched just before it.
C9_ContinueFromPreviousPage ==
    IsPagedOp =>
      \A k \in FirstFetch..Len(requests) :
        ContinueParams(requests[k].url) =
          (IF k = FirstFetch THEN <<>>
           ELSE <<"continue=" \o TokenOf(responses[k - 1])>>)

\* Page 1 gave t1 and page 2 gave t2: the third fetch carries t2.
C9_Witness ==
    /\ op.name = "GetApplications"
    /\ Len(requests) = 3
    /\ TokenOf(responses[1]) = "t1"
    /\ TokenOf(responses[2]) = "t2"
    /\ ContinueParams(requests[3].url) = <<"continue=t2">>

\* The page fetches of the call, by their place among the calls made.
PageFetches == FirstFetch..Len(fetched)

\* A page fetch that failed: getHTTP returned an error or no JSON came.
FetchFailed(k) ==
    fetched[k].err # "nil" \/ fetched[k].body[1].kind # "json"

\* The call is in its pagination loop or has left it.
LoopEntered ==
    /\ pc \in {"loop", "done"}
    /\ op.name = "GetProperties" =>
         fetched[1].err = "nil" /\ fetched[1].status = 200

\* C10: a pagination loop has returned exactly when one of its fetches
\* failed or one of its pages carried an empty or absent continuation token;
\* as long as every page comes with a non-empty token it goes on, whether
\* or not a token repeats.
C10_LoopEndsOnlyOnEmptyToken ==
    IsPagedOp /\ LoopEntered =>
      (pc = "done" <=>
         \E k \in PageFetches :
           FetchFailed(k) \/ TokenOf(responses[k]) = "")

\* Three pages in a row with the same token, and the loop is still running.
C10_Witness ==
    /\ op.name = "GetApplications"
    /\ pc = "loop"
    /\ Len(responses) = 3
    /\ \A k \in 1..3 : OkPage(responses[k]) /\ TokenOf(responses[k]) = "t1"

====
